---- MODULE Spec2Model ----
(***************************************************************************)
(* Model of the WATTx explorer indexer (backend/src/indexer.js) over its   *)
(* SQLite store (backend/src/db.js) and the node's JSON-RPC client         *)
(* (backend/src/rpc.js).                                                   *)
(*                                                                         *)
(* One step of the model is one macrotask of the JavaScript event loop:    *)
(* the code that runs from the arrival of an RPC response (or a timer)     *)
(* until every continuation it made runnable has reached its next network  *)
(* await.  The receipt tasks that indexTransaction starts without awaiting *)
(* them are kept in the bag `tasks`; the statements of the task that is    *)
(* running are executed one at a time through `cur`, and nothing else is   *)
(* scheduled while `cur` is non-empty.                                     *)
(***************************************************************************)
EXTENDS Integers, Sequences, FiniteSets, Bags, TLC

(* ------------------------------ bounds --------------------------------- *)
MaxHeight == 2          \* the chain's heights are 0..MaxHeight
MaxFaults == 1          \* node-call errors and store-write errors in a run
MaxStarts == 2          \* invocations of start() that reach sync()
MaxChain == 12          \* the longest chain of the batching specification

(* ------------------------- program constants --------------------------- *)
batchSize == 10
IdleDelay == 2000
BackoffDelay == 5000
TRANSFER_TOPIC == "0xddf252ad1be2c89b69c2b068fc378daa952ba7f163c4a11628f55a4df523b3ef"
APPROVAL_TOPIC == "0x8c5be1e5ebec7d5bd14f71427d1e84f3dd0314c0f7b2291e5b200ac8c7c3b925"

Heights == 0..MaxHeight

\* What getblockcount reports during the run: the chain is at MaxHeight - 1
\* or has grown to MaxHeight, in either order from one call to the next.
ChainHeights == (MaxHeight - 1)..MaxHeight
LoopIds == 1..MaxStarts

Min(a, b) == IF a <= b THEN a ELSE b

(* --------------------------- the node's data --------------------------- *)
\* SQL NULL, and JavaScript's `x || null` for a string x that may be absent
\* or empty.
null == "null"
OrNull(x) == IF x = "" THEN null ELSE x

\* String.prototype.toLowerCase on the addresses the node reports.
toLowerCase(a) ==
    IF a = "A" THEN "a" ELSE IF a = "B" THEN "b"
    ELSE IF a = "QB" THEN "qb" ELSE IF a = "QC" THEN "qc" ELSE a

\* vout.value is in coins, the stored value in units of 1e-8 coin.
COIN == 100000000

\* Block 1 holds two transactions on one token contract A: t1 creates the
\* contract and emits a Transfer (the mint), t2 pays QB, calls the contract
\* and emits a Transfer and an Approval.  Every other block is empty.
TxsOf(h) == IF h = 1 THEN <<"t1", "t2">> ELSE <<>>

HeightOfTx(t) == CHOOSE h \in Heights : \E i \in 1..Len(TxsOf(h)) : TxsOf(h)[i] = t

\* The transaction objects of getblock at verbosity 2.  An absent string
\* field is "", an absent list <<>>.
Tx(txid) ==
    IF txid = "t1"
    THEN [txid |-> txid,
          vout |-> << [value |-> 0,
                       scriptPubKey |-> [type |-> "create", address |-> "A",
                                         addresses |-> <<>>,
                                         hex |-> "60806040"]] >>]
    ELSE [txid |-> txid,
          vout |-> << [value |-> 5,
                       scriptPubKey |-> [type |-> "pubkeyhash", address |-> "",
                                         addresses |-> <<"QB">>,
                                         hex |-> "76a914"]],
                      [value |-> 0,
                       scriptPubKey |-> [type |-> "call", address |-> "A",
                                         addresses |-> <<>>,
                                         hex |-> "a9059cbb"]] >>]

HashOf(h) ==
    <<"h0", "h1", "h2", "h3", "h4", "h5", "h6", "h7", "h8", "h9", "h10",
      "h11", "h12", "h13", "h14", "h15", "h16">>[h + 1]

\* The block's flags field: its markers, or no field at all.
FlagsOf(h) ==
    IF h % 3 = 0 THEN [present |-> TRUE, markers |-> {"proof-of-stake"}]
    ELSE IF h % 3 = 1 THEN [present |-> TRUE, markers |-> {"proof-of-work"}]
    ELSE [present |-> FALSE, markers |-> {}]

\* getblock: the genesis block has no previousblockhash, no block has a
\* miner field.
Chain(h) ==
    [height |-> h, hash |-> HashOf(h),
     previousblockhash |-> IF h = 0 THEN "" ELSE HashOf(h - 1),
     time |-> 1000 + h, miner |-> "", difficulty |-> 3 + h,
     size |-> 200 + h, nonce |-> 7 * h,
     flags |-> FlagsOf(h),
     tx |-> [i \in 1..Len(TxsOf(h)) |-> Tx(TxsOf(h)[i])]]

\* Indexed topics are 32-byte words holding an address in their last 20
\* bytes.
FromTopic == "0x000000000000000000000000AAAAAAAAAAAAAAAAAAAAAAAAAAAAAAAAAAAAAA01"
ToTopic == "0x000000000000000000000000BBBBBBBBBBBBBBBBBBBBBBBBBBBBBBBBBBBBBB02"

\* '0x' + topic.slice(-40).toLowerCase() on the topics the node reports.
AddressOfTopic(topic) ==
    IF topic = FromTopic THEN "0xaaaaaaaaaaaaaaaaaaaaaaaaaaaaaaaaaaaaaa01"
    ELSE "0xbbbbbbbbbbbbbbbbbbbbbbbbbbbbbbbbbbbbbb02"

TransferLog == [address |-> "A", topics |-> <<TRANSFER_TOPIC, FromTopic, ToTopic>>,
                data |-> "00000000000000000000000000000000000000000000000000000000000003e8"]
ApprovalLog == [address |-> "A", topics |-> <<APPROVAL_TOPIC, FromTopic, ToTopic>>,
                data |-> ""]

\* gettransactionreceipt: a list of receipts, each with its logs and, for a
\* contract creation, the created address ("" when there is none).
ReceiptsOf(t) ==
    IF t = "t1"
    THEN << [log |-> <<TransferLog>>, contractAddress |-> "A"] >>
    ELSE << [log |-> <<TransferLog, ApprovalLog>>, contractAddress |-> ""] >>

MetaFields == {"name", "symbol", "decimals", "totalSupply"}

\* The sets of metadata calls that fail in one probe: none, some, all.
MetaFailures == {{}, {"decimals", "totalSupply"}, MetaFields}

\* Heights for which getblock may return no block.
GapHeights == {1, 2}

\* What qrc20name, qrc20symbol, qrc20decimals and qrc20totalsupply return.
NodeMeta == [name |-> "Token A", symbol |-> "TKA", decimals |-> 8,
             totalSupply |-> "1000"]

(* ------------------------------- state --------------------------------- *)
VARIABLES
    isRunning,        \* Indexer.isRunning
    loops,            \* one record per invocation of sync()
    tasks,            \* bag of receipt tasks suspended at a node call
    cur,              \* <<>> or <<t>>: the receipt task that is executing
    blocks,           \* table blocks
    transactions,     \* table transactions
    event_logs,       \* table event_logs
    tokens,           \* table tokens
    token_transfers,  \* table token_transfers
    indexer_state,    \* table indexer_state
    faults,           \* errors injected so far
    hist,             \* history of the run, read only by the properties
    helper            \* the helper call under evaluation: arguments, result

store == <<blocks, transactions, event_logs, tokens, token_transfers,
           indexer_state>>
vars == <<isRunning, loops, tasks, cur, blocks, transactions, event_logs,
          tokens, token_transfers, indexer_state, faults, hist, helper>>

(* ----------------------- decimal-string conversions -------------------- *)
\* A decimal string is the sequence of its digits.
RECURSIVE toString(_)
toString(n) == IF n < 10 THEN <<n>> ELSE toString(n \div 10) \o <<n % 10>>

RECURSIVE parseInt(_)
parseInt(s) ==
    IF Len(s) = 1 THEN s[1]
    ELSE 10 * parseInt(SubSeq(s, 1, Len(s) - 1)) + s[Len(s)]

(* ------------------------- the store's statements ---------------------- *)
\* A table is the bag of its rows: the rowid or autoincrement id that tells
\* two equal rows apart is not kept, only how many of them there are.
Rows(tbl) == BagToSet(tbl)

\* The table without the rows in `gone`.
Delete(tbl, gone) == [r \in DOMAIN tbl \ gone |-> tbl[r]]

Insert(tbl, row) == tbl (+) SetToBag({row})

\* FOREIGN KEY clauses of the schema; better-sqlite3 enforces them.
FkTx(txs, hash) == \E r \in Rows(txs) : r.hash = hash
\* Variant of FkToken: the foreign key on token_address is not enforced.
FkTokenOff(address) == TRUE

FkToken(address) == \E r \in Rows(tokens) : r.address = address

\* INSERT OR REPLACE INTO blocks: height is the primary key, hash is UNIQUE.
insertBlock(tbl, row) ==
    Insert(Delete(tbl, {r \in DOMAIN tbl :
                            r.height = row.height \/ r.hash = row.hash}),
           row)

\* Variant of insertTx: a plain INSERT into a table without the key.
insertTxPlain(tbl, row) == Insert(tbl, row)

\* INSERT OR REPLACE INTO transactions: hash is the primary key.
insertTx(tbl, row) ==
    Insert(Delete(tbl, {r \in DOMAIN tbl : r.hash = row.hash}), row)

\* INSERT INTO event_logs: the key is the autoincrement id.
insertLog(tbl, row) == Insert(tbl, row)

\* INSERT OR REPLACE INTO tokens: address is the primary key.
insertToken(tbl, row) ==
    Insert(Delete(tbl, {r \in DOMAIN tbl : r.address = row.address}), row)

\* INSERT INTO token_transfers: the key is the autoincrement id.
insertTransfer(tbl, row) == Insert(tbl, row)

getIndexerState(key) == {r \in Rows(indexer_state) : r.key = key}

setIndexerState(tbl, key, value) ==
    Insert(Delete(tbl, {r \in DOMAIN tbl : r.key = key}),
           [key |-> key, value |-> value])

getToken(address) == {r \in Rows(tokens) : r.address = address}

(* ------------------------------ the cursor ----------------------------- *)
\* Variant of getLastIndexedBlock: the row is looked up under another key.
getLastIndexedBlockOtherKey ==
    LET row == getIndexerState("lastBlock")
    IN  IF row # {} THEN parseInt((CHOOSE r \in row : TRUE).value) ELSE -1

getLastIndexedBlock ==
    LET row == getIndexerState("last_block")
    IN  IF row # {} THEN parseInt((CHOOSE r \in row : TRUE).value) ELSE -1

setLastIndexedBlock(height) ==
    setIndexerState(indexer_state, "last_block", toString(height))

\* The height the row 'last_block' holds, -1 without a row: what a reader of
\* the store sees, whatever the indexer's own accessors do.
StoredCursor ==
    LET row == {r \in Rows(indexer_state) : r.key = "last_block"}
    IN  IF row = {} THEN -1
        ELSE LET v == (CHOOSE r \in row : TRUE).value
             IN  IF Len(v) = 1 THEN v[1] ELSE 10 * v[1] + v[2]

(* ------------------------------- Init ---------------------------------- *)
NewLoop == [pc |-> "none", chainHeight |-> 0, startBlock |-> 0, endBlock |-> 0,
            height |-> 0, delay |-> 0, failedAt |-> -2, stopSeen |-> FALSE]

\* No helper call is under evaluation while the indexer runs.
NoCall == [fn |-> "none"]

Init ==
    /\ isRunning = FALSE
    /\ loops = [l \in LoopIds |-> NewLoop]
    /\ tasks = EmptyBag
    /\ cur = <<>>
    /\ blocks = EmptyBag
    /\ transactions = EmptyBag
    /\ event_logs = EmptyBag
    /\ tokens = EmptyBag
    /\ token_transfers = EmptyBag
    /\ indexer_state = EmptyBag
    /\ faults = 0
    /\ hist = [hiDone |-> -1, skipped |-> {}, metaCalls |-> 0,
               tokenWrites |-> 0, reindexed |-> FALSE, fkRejected |-> FALSE,
               lost |-> {}, received |-> {}, lastProbe |-> {},
               again |-> {}]
    /\ helper = NoCall

\* History: a row write of transaction txid has thrown.  hist.lost holds the
\* heights with such a write since the height was last committed.
RowLost(txid) == [hist EXCEPT !.lost = @ \cup {HeightOfTx(txid)}]

(* ---------------------------- start / stop ----------------------------- *)
\* The head of the while loop of sync(): issue getBlockCount, or return.
LoopHead(L, running) ==
    IF running THEN [NewLoop EXCEPT !.pc = "count", !.failedAt = L.failedAt]
    ELSE [NewLoop EXCEPT !.pc = "done"]

\* Variant of Backoff: the error escapes sync(), which returns.
BackoffExit(L) == [NewLoop EXCEPT !.pc = "done"]

\* catch (error) { await this.sleep(5000) }.  failedAt is history: the
\* stored cursor the failed iteration left behind.
Backoff(L) == [NewLoop EXCEPT !.pc = "sleep", !.delay = BackoffDelay,
                              !.failedAt = StoredCursor]

\* start(): a no-op while isRunning; otherwise sets the flag and enters
\* sync().  `limit` bounds the number of invocations that get past the flag.
Start(limit) ==
    /\ cur = <<>>
    /\ ~isRunning
    /\ \E l \in LoopIds :
        /\ l <= limit
        /\ loops[l].pc = "none"
        /\ \A k \in LoopIds : k < l => loops[k].pc # "none"
        /\ loops' = [loops EXCEPT ![l] = LoopHead(@, TRUE)]
    /\ isRunning' = TRUE
    /\ UNCHANGED <<helper, tasks, cur, store, faults, hist>>

\* stop() clears the flag.  stopSeen is history: the call came while the
\* loop was awaiting a block of its batch.
Stop ==
    /\ cur = <<>>
    /\ isRunning
    /\ isRunning' = FALSE
    /\ loops' = [l \in LoopIds |->
            IF loops[l].pc = "block" THEN [loops[l] EXCEPT !.stopSeen = TRUE]
            ELSE loops[l]]
    /\ UNCHANGED <<helper, tasks, cur, store, faults, hist>>

(* ------------------------------- sync ---------------------------------- *)
\* getBlockCount throws.
CountError(l) ==
    /\ cur = <<>>
    /\ loops[l].pc = "count"
    /\ faults < MaxFaults
    /\ faults' = faults + 1
    /\ loops' = [loops EXCEPT ![l] = Backoff(@)]
    /\ UNCHANGED <<helper, isRunning, tasks, cur, store, hist>>

\* Variant of CountReturnAt: the batch runs up to the chain height, without
\* the limit of batchSize.
CountReturnUnbatched(l, reported) ==
    /\ cur = <<>>
    /\ loops[l].pc = "count"
    /\ \E chainHeight \in reported :
        LET lastIndexed == getLastIndexedBlock
            startBlock == lastIndexed + 1
        IN  loops' = [loops EXCEPT ![l] =
                IF lastIndexed >= chainHeight
                THEN [NewLoop EXCEPT !.pc = "sleep", !.delay = IdleDelay,
                                     !.chainHeight = chainHeight]
                ELSE [@ EXCEPT !.pc = "block", !.chainHeight = chainHeight,
                               !.startBlock = startBlock,
                               !.endBlock = chainHeight, !.height = startBlock]]
    /\ UNCHANGED <<helper, isRunning, tasks, cur, store, faults, hist>>

\* Variant of CountReturnAt: without the test for the tip, a chain height at
\* or below the cursor gives an empty batch, whose end is stored.
CountReturnNoIdle(l, reported) ==
    /\ cur = <<>>
    /\ loops[l].pc = "count"
    /\ \E chainHeight \in reported :
        LET lastIndexed == getLastIndexedBlock
            startBlock == lastIndexed + 1
            endBlock == Min(startBlock + batchSize - 1, chainHeight)
        IN  IF lastIndexed >= chainHeight
            THEN /\ indexer_state' = setLastIndexedBlock(endBlock)
                 /\ loops' = [loops EXCEPT ![l] = LoopHead(@, isRunning)]
            ELSE /\ loops' = [loops EXCEPT ![l] =
                        [@ EXCEPT !.pc = "block", !.chainHeight = chainHeight,
                                  !.startBlock = startBlock,
                                  !.endBlock = endBlock,
                                  !.height = startBlock]]
                 /\ UNCHANGED indexer_state
    /\ UNCHANGED <<helper, isRunning, tasks, cur, blocks, transactions,
                   event_logs, tokens, token_transfers, faults, hist>>

\* getBlockCount returns a chainHeight out of `reported`: idle, or start the
\* batch with the rpc.getBlock call of its first height.  An idle loop
\* keeps the chain height it has seen for the properties to read.
CountReturnAt(l, reported) ==
    /\ cur = <<>>
    /\ loops[l].pc = "count"
    /\ \E chainHeight \in reported :
        LET lastIndexed == getLastIndexedBlock
            startBlock == lastIndexed + 1
            endBlock == Min(startBlock + batchSize - 1, chainHeight)
        IN  loops' = [loops EXCEPT ![l] =
                IF lastIndexed >= chainHeight
                THEN [NewLoop EXCEPT !.pc = "sleep", !.delay = IdleDelay,
                                     !.chainHeight = chainHeight]
                ELSE [@ EXCEPT !.pc = "block", !.chainHeight = chainHeight,
                               !.startBlock = startBlock,
                               !.endBlock = endBlock, !.height = startBlock]]
    /\ UNCHANGED <<helper, isRunning, tasks, cur, store, faults, hist>>

CountReturn(l) == CountReturnAt(l, ChainHeights)

\* sleep(ms) resolves: back to the head of the loop.
Wake(l) ==
    /\ cur = <<>>
    /\ loops[l].pc = "sleep"
    /\ loops' = [loops EXCEPT ![l] = LoopHead(@, isRunning)]
    /\ UNCHANGED <<helper, isRunning, tasks, cur, store, faults, hist>>

\* Variant of AfterBlock: the cursor is stored after every block of the
\* batch instead of once after the last.
AfterBlockEager(l, cursorFails, hist0) ==
    LET L == loops[l]
    IN  IF cursorFails
        THEN /\ faults < MaxFaults
             /\ faults' = faults + 1
             /\ loops' = [loops EXCEPT ![l] = Backoff(@)]
             /\ hist' = hist0
             /\ UNCHANGED indexer_state
        ELSE /\ indexer_state' = setLastIndexedBlock(L.height)
             /\ loops' = [loops EXCEPT ![l] =
                    IF L.height < L.endBlock
                    THEN [@ EXCEPT !.height = @ + 1]
                    ELSE LoopHead(NewLoop, isRunning)]
             /\ hist' = IF L.height < L.endBlock THEN hist0
                        ELSE [hist0 EXCEPT !.hiDone =
                                IF L.endBlock > @ THEN L.endBlock ELSE @]
             /\ UNCHANGED faults

\* What sync() does once indexBlock(height) has returned: the next height
\* of the batch, or setLastIndexedBlock(endBlock) and the loop head.
\* cursorFails: the cursor write throws.
AfterBlock(l, cursorFails, hist0) ==
    LET L == loops[l]
    IN  IF L.height < L.endBlock
        THEN /\ ~cursorFails
             /\ loops' = [loops EXCEPT ![l].height = @ + 1, ![l].pc = "block"]
             /\ hist' = hist0
             /\ UNCHANGED <<indexer_state, faults>>
        ELSE IF cursorFails
        THEN /\ faults < MaxFaults
             /\ faults' = faults + 1
             /\ loops' = [loops EXCEPT ![l] = Backoff(@)]
             /\ hist' = hist0
             /\ UNCHANGED indexer_state
        ELSE /\ indexer_state' = setLastIndexedBlock(L.endBlock)
             /\ loops' = [loops EXCEPT ![l] =
                    LoopHead(NewLoop, isRunning)]
             /\ hist' = [hist0 EXCEPT !.hiDone =
                    IF L.endBlock > @ THEN L.endBlock ELSE @]
             /\ UNCHANGED faults

\* Variant of BlockError: the error of rpc.getBlock is swallowed and the
\* batch goes on with the next height.
BlockErrorSwallowed(l) ==
    /\ cur = <<>>
    /\ loops[l].pc = "block"
    /\ AfterBlock(l, FALSE, hist)
    /\ UNCHANGED <<helper, isRunning, tasks, cur, blocks, transactions, event_logs,
                   tokens, token_transfers>>

\* rpc.getBlock(height, 2) throws: its getblockhash call or its getblock
\* call failed.
BlockError(l) ==
    /\ cur = <<>>
    /\ loops[l].pc = "block"
    /\ faults < MaxFaults
    /\ faults' = faults + 1
    /\ loops' = [loops EXCEPT ![l] = Backoff(@)]
    /\ UNCHANGED <<helper, isRunning, tasks, cur, store, hist>>

\* Variant of BlockNotFound: a fetch that returns no block fails the batch.
BlockNotFoundFatal(l, cursorFails) ==
    /\ cur = <<>>
    /\ loops[l].pc = "block"
    /\ loops[l].height \in GapHeights
    /\ ~cursorFails
    /\ loops' = [loops EXCEPT ![l] = Backoff(@)]
    /\ hist' = [hist EXCEPT !.skipped = @ \cup {loops[l].height}]
    /\ UNCHANGED <<helper, isRunning, tasks, cur, store, faults>>

\* rpc.getBlock returns no block: indexBlock warns and returns.
BlockNotFound(l, cursorFails) ==
    /\ cur = <<>>
    /\ loops[l].pc = "block"
    /\ loops[l].height \in GapHeights
    /\ AfterBlock(l, cursorFails,
                  [hist EXCEPT !.skipped = @ \cup {loops[l].height}])
    /\ UNCHANGED <<helper, isRunning, tasks, cur, blocks, transactions, event_logs,
                   tokens, token_transfers>>

\* Variant of BlockRow: a block is taken as proof-of-stake unless its flags
\* say otherwise.
BlockRowStakeDefault(height, block) ==
    [height |-> height, hash |-> block.hash,
     parent_hash |-> OrNull(block.previousblockhash),
     timestamp |-> block.time,
     miner |-> OrNull(block.miner),
     difficulty |-> toString(block.difficulty),
     gas_limit |-> <<0>>, gas_used |-> <<0>>,
     tx_count |-> Len(block.tx),
     size |-> block.size,
     nonce |-> toString(block.nonce),
     is_pos |-> IF block.flags.present
                   /\ "proof-of-stake" \notin block.flags.markers
                THEN 0 ELSE 1,
     block_reward |-> <<0>>]

BlockRow(height, block) ==
    [height |-> height, hash |-> block.hash,
     parent_hash |-> OrNull(block.previousblockhash),
     timestamp |-> block.time,
     miner |-> OrNull(block.miner),
     difficulty |-> toString(block.difficulty),
     gas_limit |-> <<0>>, gas_used |-> <<0>>,
     tx_count |-> Len(block.tx),
     size |-> block.size,
     nonce |-> toString(block.nonce),
     is_pos |-> IF block.flags.present
                   /\ "proof-of-stake" \in block.flags.markers
                THEN 1 ELSE 0,
     block_reward |-> <<0>>]

\* Variant of LastOfType: the first output of the type is the one used.
FirstOfType(vout, type) ==
    LET S == {i \in 1..Len(vout) : vout[i].scriptPubKey.type = type}
    IN  IF S = {} THEN 0 ELSE CHOOSE i \in S : \A j \in S : i <= j

\* The index of the last output of the given script type, 0 if there is none.
LastOfType(vout, type) ==
    LET S == {i \in 1..Len(vout) : vout[i].scriptPubKey.type = type}
    IN  IF S = {} THEN 0 ELSE CHOOSE i \in S : \A j \in S : j <= i

\* The arguments indexTransaction passes to insertTx: the recipient and the
\* value of the first output, the address of the last 'create' output and
\* the script of the last 'call' output.
TxRow(tx, block, txIndex) ==
    LET first == IF Len(tx.vout) > 0 THEN tx.vout[1].scriptPubKey
                 ELSE [type |-> "", address |-> "", addresses |-> <<>>,
                       hex |-> ""]
        toAddress == IF first.address # "" THEN first.address
                     ELSE IF Len(first.addresses) > 0 THEN first.addresses[1]
                     ELSE ""
        value == IF Len(tx.vout) > 0 THEN toString(tx.vout[1].value * COIN)
                 ELSE <<0>>
        create == LastOfType(tx.vout, "create")
        call == LastOfType(tx.vout, "call")
        fromAddress == ""
    IN  [hash |-> tx.txid, block_height |-> block.height,
         block_hash |-> block.hash, tx_index |-> txIndex,
         from_address |-> OrNull(toLowerCase(fromAddress)),
         to_address |-> OrNull(toLowerCase(toAddress)),
         value |-> value,
         gas |-> <<0>>, gas_price |-> <<0>>, gas_used |-> <<0>>,
         nonce |-> 0,
         input |-> IF call = 0 \/ tx.vout[call].scriptPubKey.hex = ""
                   THEN "0x" ELSE tx.vout[call].scriptPubKey.hex,
         status |-> 1,
         contract_address |->
             IF create = 0 THEN null
             ELSE OrNull(toLowerCase(tx.vout[create].scriptPubKey.address)),
         timestamp |-> block.time]

\* The loop over block.tx inside db.transaction: insertTx for tx 1..n.
\* txIndex is 0-based in the row, as in the code.
RECURSIVE indexTransactions(_, _, _)
indexTransactions(tbl, block, n) ==
    IF n = 0 THEN tbl
    ELSE insertTx(indexTransactions(tbl, block, n - 1),
                  TxRow(block.tx[n], block, n - 1))

\* indexReceipt(txid, block) up to its first await: one task per
\* transaction, suspended at getTransactionReceipt.
ReceiptTask(tx) == [tx |-> tx, pc |-> "receipt", r |-> 0, i |-> 0]

Spawned(block, n) == SetToBag({ReceiptTask(block.tx[k].txid) : k \in 1..n})

\* History: the Block row of the height is in the store, so a commit of
\* the height has succeeded before.  hist.again holds the heights with
\* transactions that were committed more than once.
HasCommitted(height) == \E b \in Rows(blocks) : b.height = height

\* rpc.getBlock returns the block and db.transaction commits: the Block row and
\* every Transaction row; each indexTransaction has started its receipt task.
BlockCommit(l, cursorFails) ==
    /\ cur = <<>>
    /\ loops[l].pc = "block"
    /\ LET height == loops[l].height
           block == Chain(height)
       IN  /\ blocks' = insertBlock(blocks, BlockRow(height, block))
           /\ transactions' = indexTransactions(transactions, block, Len(block.tx))
           /\ tasks' = tasks (+) Spawned(block, Len(block.tx))
           /\ AfterBlock(l, cursorFails,
                         [hist EXCEPT !.reindexed =
                             @ \/ \E b \in Rows(blocks) : b.height = height,
                                      !.lost = @ \ {height},
                                      !.again = IF HasCommitted(height)
                                                   /\ block.tx # <<>>
                                                THEN @ \cup {height} ELSE @])
    /\ UNCHANGED <<helper, isRunning, cur, event_logs, tokens, token_transfers>>

\* A statement inside db.transaction throws: insertBlock (k = 0) or the
\* insertTx of transaction k.  The transaction rolls back; the receipt tasks
\* of the transactions before k have already been started.
BlockCommitFail(l) ==
    /\ cur = <<>>
    /\ loops[l].pc = "block"
    /\ faults < MaxFaults
    /\ faults' = faults + 1
    /\ LET block == Chain(loops[l].height)
       IN  \E k \in 0..Len(block.tx) :
               tasks' = tasks (+) Spawned(block, IF k = 0 THEN 0 ELSE k - 1)
    /\ loops' = [loops EXCEPT ![l] = Backoff(@)]
    /\ UNCHANGED <<helper, isRunning, cur, store, hist>>

(* --------------------------- receipt tasks ----------------------------- *)
Running == cur[1]

Receipt(t) == ReceiptsOf(t.tx)[t.r]

\* The statement indexReceipt reaches at receipt r, log i: the indexLog of
\* that log, the contractAddress check after the last log, or the end.
NextStmt(tx, r, i) ==
    IF r > Len(ReceiptsOf(tx)) THEN <<>>
    ELSE IF i <= Len(ReceiptsOf(tx)[r].log)
    THEN <<[tx |-> tx, pc |-> "log", r |-> r, i |-> i]>>
    ELSE <<[tx |-> tx, pc |-> "contract", r |-> r, i |-> 0]>>

\* Variant of ReceiptAbsent: the failure of the receipt call reaches sync(),
\* which backs off.
ReceiptAbsentFatal(t) ==
    /\ cur = <<>>
    /\ t.pc = "receipt"
    /\ tasks' = tasks (-) SetToBag({t})
    /\ loops' = [l \in LoopIds |->
            IF loops[l].pc \in {"count", "block"} THEN Backoff(loops[l])
            ELSE loops[l]]
    /\ UNCHANGED <<helper, isRunning, cur, store, faults, hist>>

\* getTransactionReceipt throws or returns no list: the task ends.
ReceiptAbsent(t) ==
    /\ cur = <<>>
    /\ t.pc = "receipt"
    /\ tasks' = tasks (-) SetToBag({t})
    /\ UNCHANGED <<helper, isRunning, loops, cur, store, faults, hist>>

\* getTransactionReceipt returns the receipts.
ReceiptReturn(t) ==
    /\ cur = <<>>
    /\ t.pc = "receipt"
    /\ tasks' = tasks (-) SetToBag({t})
    /\ cur' = NextStmt(t.tx, 1, 1)
    /\ hist' = [hist EXCEPT !.received = @ \cup {t.tx}]
    /\ UNCHANGED <<helper, isRunning, loops, store, faults>>

\* The block passed down from indexTransaction to indexLog.
BlockOfTx(txid) == Chain(HeightOfTx(txid))

Topic(log, k) == IF k <= Len(log.topics) THEN OrNull(log.topics[k]) ELSE null

LogRow(txid, log, logIndex) ==
    [tx_hash |-> txid, log_index |-> logIndex,
     address |-> OrNull(toLowerCase(log.address)),
     topic0 |-> Topic(log, 1), topic1 |-> Topic(log, 2),
     topic2 |-> Topic(log, 3), topic3 |-> Topic(log, 4),
     data |-> IF log.data = "" THEN "0x" ELSE log.data,
     block_height |-> BlockOfTx(txid).height,
     timestamp |-> BlockOfTx(txid).time,
     decoded_name |-> null, decoded_args |-> null]

IsTransfer(log) == log.topics[1] = TRANSFER_TOPIC /\ Len(log.topics) >= 3

\* detectToken(address) up to its first await, called at statement `at`:
\* an existing row returns at once (resume at `next`), otherwise the four
\* metadata calls are issued and the task suspends.
DetectToken(address, at, next) ==
    IF getToken(toLowerCase(address)) # {}
    THEN /\ cur' = next
         /\ UNCHANGED <<tasks, hist>>
    ELSE /\ cur' = <<>>
         /\ tasks' = tasks (+) SetToBag({at})
         /\ hist' = [hist EXCEPT !.metaCalls = Min(@ + 1, 2)]

\* indexLog: insertLog, then for a Transfer log detectToken.
IndexLog ==
    /\ cur # <<>>
    /\ Running.pc = "log"
    /\ LET t == Running
           log == Receipt(t).log[t.i]
       IN  IF ~FkTx(transactions, t.tx)
           THEN /\ cur' = <<>>
                /\ UNCHANGED <<tasks, event_logs, hist>>
           ELSE /\ event_logs' = insertLog(event_logs, LogRow(t.tx, log, t.i - 1))
                /\ IF IsTransfer(log)
                   THEN DetectToken(log.address, [t EXCEPT !.pc = "meta"],
                                    <<[t EXCEPT !.pc = "transfer"]>>)
                   ELSE /\ cur' = NextStmt(t.tx, t.r, t.i + 1)
                        /\ UNCHANGED <<tasks, hist>>
    /\ UNCHANGED <<helper, isRunning, loops, blocks, transactions, tokens,
                   token_transfers, indexer_state, faults>>

\* insertLog throws: the catch of indexReceipt ends the task.
IndexLogFail ==
    /\ cur # <<>>
    /\ Running.pc = "log"
    /\ faults < MaxFaults
    /\ faults' = faults + 1
    /\ cur' = <<>>
    /\ hist' = RowLost(Running.tx)
    /\ UNCHANGED <<helper, isRunning, loops, tasks, store>>

\* Variant of TokenRow: a failed call leaves its field empty instead of
\* putting the placeholder.
TokenRowBare(address, failed) ==
    [address |-> toLowerCase(address),
     name |-> IF "name" \in failed THEN null ELSE NodeMeta.name,
     symbol |-> IF "symbol" \in failed THEN null ELSE NodeMeta.symbol,
     decimals |-> IF "decimals" \in failed THEN 0 ELSE NodeMeta.decimals,
     total_supply |-> IF "totalSupply" \in failed THEN null
                      ELSE NodeMeta.totalSupply,
     owner |-> null]

TokenRow(address, failed) ==
    [address |-> toLowerCase(address),
     name |-> IF "name" \in failed THEN "Unknown" ELSE NodeMeta.name,
     symbol |-> IF "symbol" \in failed THEN "???" ELSE NodeMeta.symbol,
     decimals |-> IF "decimals" \in failed THEN 18 ELSE NodeMeta.decimals,
     total_supply |-> IF "totalSupply" \in failed THEN "0"
                      ELSE NodeMeta.totalSupply,
     owner |-> null]

ProbedAddress(t) ==
    IF t.pc = "meta" THEN Receipt(t).log[t.i].address
    ELSE Receipt(t).contractAddress

\* Where the caller of detectToken goes on: indexLog to insertTransfer,
\* indexReceipt to the next receipt.
AfterDetect(t) ==
    IF t.pc = "meta" THEN <<[t EXCEPT !.pc = "transfer"]>>
    ELSE NextStmt(t.tx, t.r + 1, 1)

\* Promise.all of the four metadata calls resolves, the calls in `failed`
\* having been replaced by their placeholders; insertToken writes the row.
\* `outcomes` is the collection of sets of failed calls that are considered;
\* hist.lastProbe is history, the calls that failed in the latest probe.
MetaReturnWith(t, outcomes) ==
    /\ cur = <<>>
    /\ t.pc \in {"meta", "metaC"}
    /\ tasks' = tasks (-) SetToBag({t})
    /\ \E failed \in outcomes :
          /\ tokens' = insertToken(tokens, TokenRow(ProbedAddress(t), failed))
          /\ hist' = [hist EXCEPT !.tokenWrites = Min(@ + 1, 2),
                                  !.lastProbe = failed]
    /\ cur' = AfterDetect(t)
    /\ UNCHANGED <<helper, isRunning, loops, blocks, transactions, event_logs,
                   token_transfers, indexer_state, faults>>

MetaReturn(t) == MetaReturnWith(t, MetaFailures)

\* insertToken throws: detectToken catches it and returns null.
MetaReturnFail(t) ==
    /\ cur = <<>>
    /\ t.pc \in {"meta", "metaC"}
    /\ faults < MaxFaults
    /\ faults' = faults + 1
    /\ tasks' = tasks (-) SetToBag({t})
    /\ cur' = AfterDetect(t)
    /\ hist' = RowLost(t.tx)
    /\ UNCHANGED <<helper, isRunning, loops, store>>

TransferRow(txid, log, logIndex) ==
    [tx_hash |-> txid, log_index |-> logIndex,
     token_address |-> toLowerCase(log.address),
     from_address |-> AddressOfTopic(log.topics[2]),
     to_address |-> AddressOfTopic(log.topics[3]),
     value |-> log.data,
     block_height |-> BlockOfTx(txid).height,
     timestamp |-> BlockOfTx(txid).time]

\* The second half of indexLog: insertTransfer, whatever detectToken
\* returned.  A row whose transaction or token is missing is rejected by
\* the foreign keys, and the catch of indexReceipt ends the task.
InsertTransfer ==
    /\ cur # <<>>
    /\ Running.pc = "transfer"
    /\ LET t == Running
           row == TransferRow(t.tx, Receipt(t).log[t.i], t.i - 1)
       IN  IF FkTx(transactions, row.tx_hash) /\ FkToken(row.token_address)
           THEN /\ token_transfers' = insertTransfer(token_transfers, row)
                /\ cur' = NextStmt(t.tx, t.r, t.i + 1)
                /\ UNCHANGED hist
           ELSE /\ cur' = <<>>
                /\ hist' = [hist EXCEPT !.fkRejected =
                                @ \/ ~FkToken(row.token_address)]
                /\ UNCHANGED token_transfers
    /\ UNCHANGED <<helper, isRunning, loops, tasks, blocks, transactions, event_logs,
                   tokens, indexer_state, faults>>

\* insertTransfer throws.
InsertTransferFail ==
    /\ cur # <<>>
    /\ Running.pc = "transfer"
    /\ faults < MaxFaults
    /\ faults' = faults + 1
    /\ cur' = <<>>
    /\ hist' = RowLost(Running.tx)
    /\ UNCHANGED <<helper, isRunning, loops, tasks, store>>

\* After the logs of a receipt: if (receipt.contractAddress) detectToken.
ContractProbe ==
    /\ cur # <<>>
    /\ Running.pc = "contract"
    /\ LET t == Running
       IN  IF Receipt(t).contractAddress # ""
           THEN DetectToken(Receipt(t).contractAddress,
                            [t EXCEPT !.pc = "metaC"],
                            NextStmt(t.tx, t.r + 1, 1))
           ELSE /\ cur' = NextStmt(t.tx, t.r + 1, 1)
                /\ UNCHANGED <<tasks, hist>>
    /\ UNCHANGED <<helper, isRunning, loops, store, faults>>

(* --------------------------- specifications ---------------------------- *)
\* Steps of sync() in which every node call and store write succeeds.
LoopStep(l) ==
    \/ CountReturn(l)
    \/ Wake(l)
    \/ BlockNotFound(l, FALSE)
    \/ BlockCommit(l, FALSE)

\* Steps of sync() in which a node call or a store write throws.
LoopFault(l) ==
    \/ CountError(l)
    \/ BlockError(l)
    \/ BlockCommitFail(l)
    \/ BlockNotFound(l, TRUE)
    \/ BlockCommit(l, TRUE)

TaskStepWith(outcomes) ==
    \/ \E t \in BagToSet(tasks) : ReceiptAbsent(t)
    \/ \E t \in BagToSet(tasks) : ReceiptReturn(t)
    \/ IndexLog
    \/ \E t \in BagToSet(tasks) : MetaReturnWith(t, outcomes)
    \/ InsertTransfer
    \/ ContractProbe

TaskStep == TaskStepWith(MetaFailures)

TaskFault ==
    \/ IndexLogFail
    \/ \E t \in BagToSet(tasks) : MetaReturnFail(t)
    \/ InsertTransferFail

\* The process as src/server.js runs it: start() is called once and stop()
\* never.
Next ==
    \/ Start(1)
    \/ \E l \in LoopIds : LoopStep(l)
    \/ \E l \in LoopIds : LoopFault(l)
    \/ TaskStep
    \/ TaskFault

Spec == Init /\ [][Next]_vars

\* Any sequence of start() and stop() calls on the Indexer, with a node and
\* a store that never fail.
NextStartStop ==
    \/ Start(MaxStarts)
    \/ Stop
    \/ \E l \in LoopIds : LoopStep(l)
    \/ TaskStep

SpecStartStop == Init /\ [][NextStartStop]_vars

\* The process of Spec on a chain whose height stays at MaxHeight, with the
\* event loop running every continuation whose call has been answered and
\* the node answering every call.  What fails is what sync() awaits or
\* calls: getBlockCount, getBlock, the block's commit, the cursor write; at
\* most MaxFaults times, so from some point on every call and every write
\* succeeds.  The receipt tasks, which sync() never awaits, run without
\* failures.
LoopStepAtTip(l) ==
    \/ CountReturnAt(l, {MaxHeight})
    \/ Wake(l)
    \/ BlockNotFound(l, FALSE)
    \/ BlockCommit(l, FALSE)

NextLive ==
    \/ Start(1)
    \/ \E l \in LoopIds : LoopStepAtTip(l)
    \/ \E l \in LoopIds : LoopFault(l)
    \/ TaskStepWith({{}})

SpecLive ==
    /\ Init /\ [][NextLive]_vars
    /\ WF_vars(Start(1))
    /\ \A l \in LoopIds : WF_vars(LoopStepAtTip(l))
    /\ WF_vars(TaskStepWith({{}}))

\* The process on a chain at MaxHeight with a node and a store that never
\* fail, except for the metadata calls: any of the four may fail in a probe.
NextProbe ==
    \/ Start(1)
    \/ \E l \in LoopIds : LoopStepAtTip(l)
    \/ TaskStepWith(SUBSET MetaFields)

SpecProbe == Init /\ [][NextProbe]_vars

\* The loop alone on chains of up to MaxChain blocks, longer than a batch:
\* getBlockCount may report any height, no call and no write fails, and the
\* receipt calls are left unanswered.
LoopStepBatch(l) ==
    \/ CountReturnAt(l, 0..MaxChain)
    \/ Wake(l)
    \/ BlockNotFound(l, FALSE)
    \/ BlockCommit(l, FALSE)

NextBatch ==
    \/ Start(1)
    \/ \E l \in LoopIds : LoopStepBatch(l)

SpecBatch == Init /\ [][NextBatch]_vars

(* ------------------------------ properties ----------------------------- *)
\* Transactions whose receipt processing has been started and not finished.
PendingTxs ==
    {t.tx : t \in BagToSet(tasks)} \cup {cur[k].tx : k \in 1..Len(cur)}

\* Invocations of sync() that have been entered and have not returned.
Executing == {l \in LoopIds : loops[l].pc \in {"count", "sleep", "block"}}

HasBlock(h) == \E b \in Rows(blocks) : b.height = h

LogsOf(tx) ==
    {<<r, i>> \in (1..2) \X (1..2) :
        r <= Len(ReceiptsOf(tx)) /\ i <= Len(ReceiptsOf(tx)[r].log)}

\* No row of any table belongs to height h.
NoRowsOf(h) ==
    /\ ~HasBlock(h)
    /\ \A r \in Rows(transactions) : r.block_height # h
    /\ \A r \in Rows(event_logs) : r.block_height # h
    /\ \A r \in Rows(token_transfers) : r.block_height # h

\* Every row the node's data for height h gives rise to is in the store.
AllRowsOf(h) ==
    /\ HasBlock(h)
    /\ \A k \in 1..Len(TxsOf(h)) :
        LET tx == TxsOf(h)[k]
        IN  /\ \E r \in Rows(transactions) : r.hash = tx
            /\ \A p \in LogsOf(tx) :
                LET log == ReceiptsOf(tx)[p[1]].log[p[2]]
                IN  /\ \E r \in Rows(event_logs) :
                          r.tx_hash = tx /\ r.log_index = p[2] - 1
                    /\ IsTransfer(log) =>
                        /\ \E r \in Rows(token_transfers) :
                              r.tx_hash = tx /\ r.log_index = p[2] - 1
                        /\ \E r \in Rows(tokens) :
                              r.address = toLowerCase(log.address)

\* C1: in every reachable state a reader sees, for each height, either all
\* of the block's Block, Transaction, EventLog, Token and TokenTransfer rows
\* or none of them.
C1_AtomicBlock == \A h \in Heights : NoRowsOf(h) \/ AllRowsOf(h)

\* C2: whenever the stored cursor is b, no receipt fetch and no log or
\* transfer write is still pending for a transaction of a block at height
\* <= b, so every such row has already been written.
C2_CursorCoversReceipts ==
    \A tx \in PendingTxs : HeightOfTx(tx) > StoredCursor

\* A step in which a node call or a store write of loop l throws.
FaultStepOf(l) == faults' = faults + 1 /\ loops'[l] # loops[l]

\* C3: an iteration that fails at the chain-height call, a block fetch or a
\* block's commit leaves the stored cursor as it was when the iteration
\* began, goes to sleep for the fixed back-off delay, and the next batch
\* starts again at that cursor + 1.
C3_FailedBatchRetried ==
    [][\A l \in LoopIds :
        /\ FaultStepOf(l) =>
            /\ StoredCursor' = StoredCursor
            /\ loops[l].pc = "block" => StoredCursor' = loops[l].startBlock - 1
            /\ loops'[l].pc = "sleep"
            /\ loops'[l].delay = BackoffDelay
        /\ (loops[l].pc = "sleep" /\ loops'[l] # loops[l]) =>
            /\ StoredCursor' = StoredCursor
            /\ loops'[l].pc \in {"count", "done"}
        /\ (loops[l].pc = "count" /\ loops'[l].pc = "block"
                /\ loops[l].failedAt # -2) =>
            /\ loops'[l].startBlock = loops[l].failedAt + 1
            /\ loops'[l].height = loops'[l].startBlock
            /\ StoredCursor' = loops[l].failedAt]_vars

\* A batch is being fetched again after the failure of the previous
\* iteration, which had left a cursor behind.
C3_Witness ==
    \E l \in LoopIds :
        /\ loops[l].pc = "block"
        /\ loops[l].failedAt >= 0
        /\ faults > 0

\* C4 as stated: every height from 0 to the stored cursor has a Block row.
C4_NoGapBelowCursor == \A h \in 0..StoredCursor : HasBlock(h)

\* C4: every height from 0 to the stored cursor has a Block row or is a
\* height for which the node returned no block when it was fetched.
C4_NoGapExceptNotFound ==
    \A h \in 0..StoredCursor : HasBlock(h) \/ h \in hist.skipped

\* The cursor has passed a height the node had no block for, and the
\* heights around it are persisted.
C4_Witness ==
    /\ StoredCursor = 2
    /\ hist.skipped = {2}
    /\ ~HasBlock(2)
    /\ HasBlock(0) /\ HasBlock(1)

\* C5: however often a height is indexed, each (tx hash, log index) has at
\* most one EventLog row and at most one TokenTransfer row.
C5_NoDuplicateRows ==
    /\ \A r \in Rows(event_logs) : event_logs[r] = 1
    /\ \A r \in Rows(token_transfers) : token_transfers[r] = 1
    /\ \A r1, r2 \in Rows(token_transfers) :
        (r1.tx_hash = r2.tx_hash /\ r1.log_index = r2.log_index) => r1 = r2

C7_TransferHasToken ==
    \A r \in Rows(token_transfers) :
        \E k \in Rows(tokens) : k.address = r.token_address

\* A Token insert has failed, the transfer of that log was refused, and a
\* later probe has let another transfer in.
C7_Witness ==
    /\ hist.fkRejected
    /\ token_transfers # EmptyBag

\* C8: while nothing fails, the metadata calls for the token's address are
\* issued at most once and its Token row is written at most once, and all
\* TokenTransfer rows carry the same token address.
C8_TokenProbedOnce ==
    faults = 0 =>
        /\ hist.metaCalls <= 1
        /\ hist.tokenWrites <= 1
        /\ \A r1, r2 \in Rows(token_transfers) :
              r1.token_address = r2.token_address

\* C9: the step that completes a batch [a, b] stores b as the cursor, and
\* every height fetched afterwards is greater than the b of every batch
\* completed so far.
C9_CursorAdvances ==
    /\ [][\A l \in LoopIds :
            (loops[l].pc = "block" /\ loops'[l].pc \in {"count", "done"}) =>
                /\ StoredCursor' = loops[l].endBlock
                /\ hist'.hiDone = loops[l].endBlock]_vars
    /\ [](\A l \in LoopIds :
            loops[l].pc = "block" =>
                /\ loops[l].startBlock > hist.hiDone
                /\ loops[l].height >= loops[l].startBlock)

\* A second batch is being fetched after a first one has completed.
C9_Witness ==
    \E l \in LoopIds : loops[l].pc = "block" /\ hist.hiDone >= 0

\* C10: at most one invocation of sync() is executing at any time.
C10_SingleLoop == Cardinality(Executing) <= 1

\* C11: a loop that was awaiting a block of its batch when stop() was called
\* fetches no further block after that one and returns, and when sync()
\* returns no write of a block it has committed is outstanding.
C11_StopEndsBatch ==
    [][\A l \in LoopIds :
        /\ (loops[l].stopSeen /\ loops[l].pc = "block"
                /\ loops'[l] # loops[l]) =>
              loops'[l].pc = "done"
        /\ (loops[l].pc # "done" /\ loops'[l].pc = "done") =>
              PendingTxs' = {}]_vars

\* C12: whatever failures and back-offs came first, the loop eventually has
\* stored the chain's height as the cursor and from then on only idles:
\* it is awaiting getBlockCount or its idle sleep, never a back-off, and
\* it has not returned.
C12_ReachesTipAndIdles ==
    <>[](/\ StoredCursor = MaxHeight
         /\ \E l \in LoopIds :
              /\ loops[l].pc \in {"count", "sleep"}
              /\ loops[l].delay \in {0, IdleDelay})

\* The loop idles at the chain's height after a failure.
C12_Witness ==
    /\ faults > 0
    /\ StoredCursor = MaxHeight
    /\ \E l \in LoopIds : loops[l].pc = "sleep" /\ loops[l].delay = IdleDelay

\* The position of a transaction in its block, 0-based.
IndexOfTx(tx) ==
    CHOOSE i \in 0..1 :
        i < Len(TxsOf(HeightOfTx(tx))) /\ TxsOf(HeightOfTx(tx))[i + 1] = tx

AllTxs == UNION {{TxsOf(h)[i] : i \in 1..Len(TxsOf(h))} : h \in Heights}

\* (block height, transaction index, log index) of every log of the chain
\* and of every Transfer log of the chain.
LogPositions ==
    {p \in Heights \X (0..1) \X (0..1) :
        \E tx \in AllTxs :
            /\ HeightOfTx(tx) = p[1] /\ IndexOfTx(tx) = p[2]
            /\ <<1, p[3] + 1>> \in LogsOf(tx)}

TransferPositions ==
    {p \in LogPositions :
        \E tx \in AllTxs :
            /\ HeightOfTx(tx) = p[1] /\ IndexOfTx(tx) = p[2]
            /\ IsTransfer(ReceiptsOf(tx)[1].log[p[3] + 1])}

Before(p, q) ==
    \/ p[1] < q[1]
    \/ p[1] = q[1] /\ p[2] < q[2]
    \/ p[1] = q[1] /\ p[2] = q[2] /\ p[3] < q[3]

PositionOf(r) == <<r.block_height, IndexOfTx(r.tx_hash), r.log_index>>

\* C13: while nothing fails, no block is being fetched while a receipt of a
\* lower height is still being processed, and the EventLog rows and the
\* TokenTransfer rows in the store are a prefix of the chain's logs and
\* Transfer logs in (height, transaction index, log index) order.
C13_ChainOrder ==
    faults = 0 =>
        /\ \A l \in LoopIds : loops[l].pc = "block" =>
              \A tx \in PendingTxs : HeightOfTx(tx) >= loops[l].height
        /\ \A r \in Rows(event_logs) : \A p \in LogPositions :
              Before(p, PositionOf(r)) =>
                  \E q \in Rows(event_logs) : PositionOf(q) = p
        /\ \A r \in Rows(token_transfers) : \A p \in TransferPositions :
              Before(p, PositionOf(r)) =>
                  \E q \in Rows(token_transfers) : PositionOf(q) = p

\* Loop l ends the fetch of its current height without an error and
\* without a Block row for it: getBlock returned no block.
NotFoundStepOf(l) ==
    /\ loops[l].pc = "block"
    /\ loops'[l] # loops[l]
    /\ faults' = faults
    /\ ~\E b \in Rows(blocks') : b.height = loops[l].height

\* C14: when the fetch of a height H of a batch returns no block, the
\* heights of the batch below H are persisted (or were not found either),
\* no back-off is taken, the next height of the batch is fetched next, and
\* after the last height the cursor is stored as the batch end with every
\* height of the batch persisted or not found.
C14_GapSkipped ==
    [][\A l \in LoopIds : NotFoundStepOf(l) =>
        LET L == loops[l]
        IN  /\ \A h \in L.startBlock..(L.height - 1) :
                  HasBlock(h) \/ h \in hist.skipped
            /\ loops'[l].pc # "sleep"
            /\ L.height < L.endBlock =>
                  /\ loops'[l].pc = "block"
                  /\ loops'[l].height = L.height + 1
                  /\ loops'[l].endBlock = L.endBlock
            /\ L.height = L.endBlock => StoredCursor' = L.endBlock]_vars
    /\ [][\A l \in LoopIds :
            (loops[l].pc = "block" /\ loops'[l].pc \in {"count", "done"}) =>
                /\ StoredCursor' = loops[l].endBlock
                /\ \A h \in loops[l].startBlock..loops[l].endBlock :
                      (\E b \in Rows(blocks') : b.height = h)
                          \/ h \in hist'.skipped]_vars

\* The batch [0, 2] is at its last height after height 1 was not found and
\* height 0 was persisted, without any failure.
C14_Witness ==
    /\ faults = 0
    /\ \E l \in LoopIds :
        /\ loops[l].pc = "block"
        /\ loops[l].startBlock = 0 /\ loops[l].height = 2
        /\ loops[l].endBlock = 2
    /\ HasBlock(0) /\ ~HasBlock(1) /\ 1 \in hist.skipped

\* C15: a height with a row write that has thrown since the height was last
\* committed is above the stored cursor: the batch of that height has
\* failed and the cursor has not been advanced over it.
C15_RowFailureFailsBatch == \A h \in hist.lost : StoredCursor < h

\* The receipt call of a pending task ends without a list of receipts: the
\* task is gone and no statement of it is running.
ReceiptAbsentStep(t) ==
    /\ t.pc = "receipt"
    /\ cur = <<>> /\ cur' = <<>>
    /\ tasks' = tasks (-) SetToBag({t})

\* C16: a receipt call that fails or returns no list changes no row of the
\* store, so the Block and Transaction rows committed with the block stay,
\* and it leaves every loop where it was, without a back-off, so the batch
\* goes on to its end; and a transaction for which no receipt list was ever
\* returned has no EventLog row.
C16_MissingReceiptIsSoft ==
    /\ [][\A t \in BagToSet(tasks) : ReceiptAbsentStep(t) =>
            /\ UNCHANGED store
            /\ UNCHANGED <<loops, faults, isRunning>>]_vars
    /\ [](\A r \in Rows(event_logs) : r.tx_hash \in hist.received)

\* No receipt was returned for t1 and t2: their block and the block after
\* it are persisted with both Transaction rows, the cursor is at the batch
\* end, and there is no EventLog row.
C16_Witness ==
    /\ hist.received = {} /\ PendingTxs = {} /\ faults = 0
    /\ StoredCursor = 2
    /\ HasBlock(1) /\ HasBlock(2)
    /\ \A tx \in {"t1", "t2"} : \E r \in Rows(transactions) : r.hash = tx
    /\ event_logs = EmptyBag

\* C17: a Token row, once in the store, is in the store after every step:
\* its name, symbol, decimals and total supply are never changed again.
C17_TokenRowFrozen ==
    [][\A r \in Rows(tokens) : r \in Rows(tokens')]_vars

\* C18: once a probe of the token's address has resolved, the store holds a
\* Token row for the address in which the fields of the calls that failed
\* in the latest probe are "Unknown", "???", 18 and "0" and the others are
\* what the node returned; and a probe is only issued while the address has
\* no Token row.
C18_PlaceholdersPerCall ==
    /\ [](hist.tokenWrites > 0 =>
            \E r \in Rows(tokens) :
                /\ r.address = "a"
                /\ r.name = IF "name" \in hist.lastProbe THEN "Unknown"
                            ELSE "Token A"
                /\ r.symbol = IF "symbol" \in hist.lastProbe THEN "???"
                              ELSE "TKA"
                /\ r.decimals = IF "decimals" \in hist.lastProbe THEN 18
                                ELSE 8
                /\ r.total_supply = IF "totalSupply" \in hist.lastProbe
                                    THEN "0" ELSE "1000")
    /\ [][hist'.metaCalls # hist.metaCalls => tokens = EmptyBag]_vars

\* The latest probe failed at qrc20name and qrc20decimals only.
C18_Witness ==
    /\ hist.lastProbe = {"name", "decimals"}
    /\ \E r \in Rows(tokens) :
        /\ r.name = "Unknown" /\ r.symbol = "TKA"
        /\ r.decimals = 18 /\ r.total_supply = "1000"

\* C19: whenever no receipt processing is pending, every EventLog row whose
\* topic0 is the Transfer signature has exactly one TokenTransfer row with
\* its (tx hash, log index), and every TokenTransfer row has such an
\* EventLog row.
C19_TransfersMatchLogs ==
    PendingTxs = {} =>
        /\ \A e \in Rows(event_logs) :
              e.topic0 = TRANSFER_TOPIC =>
                  \E r \in Rows(token_transfers) :
                      /\ r.tx_hash = e.tx_hash /\ r.log_index = e.log_index
                      /\ token_transfers[r] = 1
                      /\ \A q \in Rows(token_transfers) :
                            (q.tx_hash = e.tx_hash
                                /\ q.log_index = e.log_index) => q = r
        /\ \A r \in Rows(token_transfers) :
              \E e \in Rows(event_logs) :
                  /\ e.topic0 = TRANSFER_TOPIC
                  /\ e.tx_hash = r.tx_hash /\ e.log_index = r.log_index

\* C20: a batch starts at the stored cursor + 1, at 0 without a cursor row,
\* and ends at min(start + batchSize - 1, chainHeight); its heights are
\* fetched one after the other from start to end, which are at most
\* batchSize heights, none above the chain height observed.
C20_BatchRange ==
    /\ [][\A l \in LoopIds :
            /\ (loops[l].pc = "count" /\ loops'[l].pc = "block") =>
                LET N == loops'[l]
                IN  /\ N.startBlock = StoredCursor + 1
                    /\ indexer_state = EmptyBag => N.startBlock = 0
                    /\ N.height = N.startBlock
                    /\ N.endBlock =
                          IF N.startBlock + batchSize - 1 <= N.chainHeight
                          THEN N.startBlock + batchSize - 1
                          ELSE N.chainHeight
            /\ (loops[l].pc = "block" /\ loops'[l].pc = "block"
                    /\ loops'[l] # loops[l]) =>
                /\ loops[l].height < loops[l].endBlock
                /\ loops'[l].height = loops[l].height + 1
                /\ loops'[l].startBlock = loops[l].startBlock
                /\ loops'[l].endBlock = loops[l].endBlock
                /\ loops'[l].chainHeight = loops[l].chainHeight
            /\ (loops[l].pc = "block" /\ loops'[l].pc \in {"count", "done"}) =>
                loops[l].height = loops[l].endBlock]_vars
    /\ [](\A l \in LoopIds : loops[l].pc = "block" =>
            /\ loops[l].startBlock <= loops[l].height
            /\ loops[l].height <= loops[l].endBlock
            /\ loops[l].endBlock - loops[l].startBlock + 1 <= batchSize
            /\ loops[l].endBlock <= loops[l].chainHeight)

\* The first batch, started without a cursor row on a chain longer than
\* batchSize, is at its last height, which is below the chain height.
C20_Witness ==
    /\ indexer_state = EmptyBag
    /\ \E l \in LoopIds :
        /\ loops[l].pc = "block"
        /\ loops[l].startBlock = 0
        /\ loops[l].height = loops[l].endBlock
        /\ loops[l].endBlock = batchSize - 1
        /\ loops[l].endBlock < loops[l].chainHeight

(* ------------------------- decoding and rendering ---------------------- *)
\* The unsigned integer a 32-byte data word encodes, as a base-10 string.
DecimalOfData(data) ==
    IF data = "00000000000000000000000000000000000000000000000000000000000003e8"
    THEN "1000" ELSE "0"

\* C21: the TokenTransfer row of a Transfer log with three topics has
\* from = 0x + the low 20 bytes of topics[1], to = 0x + the low 20 bytes of
\* topics[2], and value = the base-10 string of the unsigned integer in the
\* log data: "1000" for the 32-byte big-endian encoding of 1000.
C21_TransferDecoded ==
    \A r \in Rows(token_transfers) :
        \E t \in AllTxs : \E k \in 1..Len(ReceiptsOf(t)) :
            \E i \in 1..Len(ReceiptsOf(t)[k].log) :
                LET log == ReceiptsOf(t)[k].log[i]
                IN  /\ r.tx_hash = t /\ r.log_index = i - 1
                    /\ log.topics[1] = TRANSFER_TOPIC /\ Len(log.topics) >= 3
                    /\ r.from_address
                         = "0xaaaaaaaaaaaaaaaaaaaaaaaaaaaaaaaaaaaaaa01"
                    /\ r.to_address
                         = "0xbbbbbbbbbbbbbbbbbbbbbbbbbbbbbbbbbbbbbb02"
                    /\ r.value = DecimalOfData(log.data)

\* Text is the sequence of its characters.
DigitChars == <<"0", "1", "2", "3", "4", "5", "6", "7", "8", "9">>

\* The text of a digit sequence, and the number a text of digits denotes.
Text(digits) == [i \in 1..Len(digits) |-> DigitChars[digits[i] + 1]]
DigitOf(c) == CHOOSE d \in 0..9 : DigitChars[d + 1] = c
NumberOf(text) == parseInt([i \in 1..Len(text) |-> DigitOf(text[i])])

Max(a, b) == IF a > b THEN a ELSE b

\* String.prototype.padStart(n, c)
padStart(s, n, c) ==
    IF Len(s) >= n THEN s ELSE [i \in 1..(n - Len(s)) |-> c] \o s

\* String.prototype.slice(begin, end): a negative index counts from the
\* end of the string, and -0 is 0.
RelativeIndex(i, len) == IF i < 0 THEN Max(len + i, 0) ELSE Min(i, len)
slice(s, begin, end) ==
    SubSeq(s, RelativeIndex(begin, Len(s)) + 1, RelativeIndex(end, Len(s)))

\* replace(/0+$/, '') and replace(/\.$/, '')
RECURSIVE StripZeros(_)
StripZeros(s) ==
    IF s # <<>> /\ s[Len(s)] = "0" THEN StripZeros(SubSeq(s, 1, Len(s) - 1))
    ELSE s
StripDot(s) ==
    IF s # <<>> /\ s[Len(s)] = "." THEN SubSeq(s, 1, Len(s) - 1) ELSE s

formatTokenAmount(amount, decimals) ==
    LET str == padStart(amount, decimals + 1, "0")
        sliced == slice(str, 0, -decimals)
        whole == IF sliced = <<>> THEN <<"0">> ELSE sliced
        frac == slice(str, -decimals, Len(str))
        formatted == IF frac # <<>> THEN whole \o <<".">> \o StripZeros(frac)
                     ELSE whole
    IN  StripDot(formatted)

\* Amounts and decimals of the calls of formatTokenAmount.
MaxAmount == 1100
MaxDecimals == 3
BigAmount == Text(<<1, 5, 0, 0, 0, 0, 0, 0, 0, 0, 0, 0, 0, 0, 0, 0, 0, 0, 0>>)

FormatCalls(maxAmount, maxDecimals) ==
    {[fn |-> "formatTokenAmount", amount |-> Text(toString(n)),
      decimals |-> d, done |-> FALSE, out |-> <<>>] :
        n \in 0..maxAmount, d \in 0..maxDecimals}
    \cup {[fn |-> "formatTokenAmount", amount |-> BigAmount,
           decimals |-> 18, done |-> FALSE, out |-> <<>>]}

\* A page of /api/tokens or /api/token/:addr renders an amount.
Format ==
    /\ helper.fn = "formatTokenAmount"
    /\ ~helper.done
    /\ helper' = [helper EXCEPT
                    !.out = formatTokenAmount(helper.amount, helper.decimals),
                    !.done = TRUE]
    /\ UNCHANGED <<isRunning, loops, tasks, cur, store, faults, hist>>

RECURSIVE Pow10(_)
Pow10(d) == IF d = 0 THEN 1 ELSE 10 * Pow10(d - 1)

\* amount / 10^decimals by long division: the quotient, then, unless the
\* remainder is zero, a point and the remainder on `decimals` digits
\* without its trailing zeros.
LongDivision(n, d) ==
    LET whole == Text(toString(n \div Pow10(d)))
        rem == n % Pow10(d)
        frac == StripZeros(padStart(Text(toString(rem)), d, "0"))
    IN  IF rem = 0 THEN whole ELSE whole \o <<".">> \o frac

\* C22: formatTokenAmount(amount, decimals) is the long division of amount
\* by 10^decimals, trailing zeros of the fraction stripped and no point
\* when the fraction is zero, for every decimals >= 0; ("15" followed by 17
\* zeros, 18) gives "1.5", ("0", d) gives "0", ("100", 0) gives "100".
C22_FormatIsLongDivision ==
    (helper.fn = "formatTokenAmount" /\ helper.done) =>
        /\ helper.amount # BigAmount =>
              helper.out = LongDivision(NumberOf(helper.amount),
                                        helper.decimals)
        /\ (helper.amount = BigAmount /\ helper.decimals = 18) =>
              helper.out = <<"1", ".", "5">>
        /\ helper.amount = <<"0">> => helper.out = <<"0">>
        /\ (helper.amount = <<"1", "0", "0">> /\ helper.decimals = 0) =>
              helper.out = <<"1", "0", "0">>

(* ------------------------------ block rows ----------------------------- *)
\* C23: a block is stored with is_pos = 1 exactly when the flags the node
\* reports for it contain the proof-of-stake marker, and with is_pos = 0
\* otherwise, also when the node reports no flags field.
C23_IsPosFromFlags ==
    \A b \in Rows(blocks) :
        LET flags == FlagsOf(b.height)
        IN  /\ b.is_pos \in {0, 1}
            /\ b.is_pos = 1 <=>
                  (flags.present /\ "proof-of-stake" \in flags.markers)

\* A proof-of-stake block, a proof-of-work block and a block without flags
\* are stored.
C23_Witness ==
    /\ \E b \in Rows(blocks) :
          FlagsOf(b.height).present /\ b.is_pos = 1
    /\ \E b \in Rows(blocks) :
          FlagsOf(b.height).present /\ b.is_pos = 0
    /\ \E b \in Rows(blocks) :
          ~FlagsOf(b.height).present /\ b.is_pos = 0

(* ----------------------------- decodeUint256 --------------------------- *)
\* Characters of the hex arguments: hex digits, and two that are not.
HexDigits == {"0", "1", "a", "f"}
HexChars == HexDigits \cup {"x", "g"}
MaxHexLen == 3

HexDigitValue(c) ==
    IF c = "0" THEN 0 ELSE IF c = "1" THEN 1 ELSE IF c = "a" THEN 10 ELSE 15

\* BigInt(text) for a text that starts with 0x: the number its hex digits
\* denote, or a SyntaxError when there is none or one is not a hex digit.
RECURSIVE HexNumber(_)
HexNumber(s) ==
    IF s = <<>> THEN 0
    ELSE 16 * HexNumber(SubSeq(s, 1, Len(s) - 1)) + HexDigitValue(s[Len(s)])

BigInt0x(s) ==
    IF s # <<>> /\ \A i \in 1..Len(s) : s[i] \in HexDigits
    THEN [threw |-> FALSE, value |-> HexNumber(s)]
    ELSE [threw |-> TRUE, value |-> 0]

\* decodeUint256(hex): what it returns, or that it threw.
decodeUint256(present, hex) ==
    IF ~present \/ hex = <<>> \/ hex = <<"0", "x">>
    THEN [threw |-> FALSE, value |-> <<"0">>]
    ELSE LET n == BigInt0x(hex)
         IN  IF n.threw THEN [threw |-> TRUE, value |-> <<>>]
             ELSE [threw |-> FALSE, value |-> Text(toString(n.value))]

DecodeCalls(maxLen) ==
    {[fn |-> "decodeUint256", present |-> TRUE, hex |-> h, done |-> FALSE,
      out |-> [threw |-> FALSE, value |-> <<>>]] :
        h \in UNION {[1..n -> HexChars] : n \in 0..maxLen}}
    \cup {[fn |-> "decodeUint256", present |-> FALSE, hex |-> <<>>,
           done |-> FALSE, out |-> [threw |-> FALSE, value |-> <<>>]]}

\* A handler decodes the output of a contract call or the data of a log.
Decode ==
    /\ helper.fn = "decodeUint256"
    /\ ~helper.done
    /\ helper' = [helper EXCEPT
                    !.out = decodeUint256(helper.present, helper.hex),
                    !.done = TRUE]
    /\ UNCHANGED <<isRunning, loops, tasks, cur, store, faults, hist>>

\* The unsigned value of a text of hex digits, digit by digit.
RECURSIVE Pow16(_)
Pow16(k) == IF k = 0 THEN 1 ELSE 16 * Pow16(k - 1)
RECURSIVE UnsignedOf(_, _)
UnsignedOf(s, i) ==
    IF i > Len(s) THEN 0
    ELSE HexDigitValue(s[i]) * Pow16(Len(s) - i) + UnsignedOf(s, i + 1)

WellFormedHex(s) == s # <<>> /\ \A i \in 1..Len(s) : s[i] \in HexDigits

\* C24: decodeUint256 returns "0" for empty or absent hex, the base-10
\* string of the unsigned value for well-formed hex, and for malformed hex
\* (a 0x prefix, a character that is no hex digit) returns a value instead
\* of raising an error.
C24_DecodeNeverThrows ==
    (helper.fn = "decodeUint256" /\ helper.done) =>
        /\ ~helper.out.threw
        /\ (~helper.present \/ helper.hex = <<>>) =>
              helper.out.value = <<"0">>
        /\ WellFormedHex(helper.hex) =>
              helper.out.value = Text(toString(UnsignedOf(helper.hex, 1)))

(* --------------------------- transaction rows -------------------------- *)
\* Outputs a transaction object may hold: payments with the address in
\* `address` or in `addresses`, an output without address, contract
\* creations and contract calls, with and without address and payload.
Script(type, address, addresses, hex) ==
    [type |-> type, address |-> address, addresses |-> addresses, hex |-> hex]

Vouts ==
    {[value |-> 5, scriptPubKey |-> Script("pubkeyhash", "", <<"QB">>, "76a914")],
     [value |-> 7, scriptPubKey |-> Script("pubkeyhash", "QC", <<>>, "76a915")],
     [value |-> 0, scriptPubKey |-> Script("nulldata", "", <<>>, "6a")],
     [value |-> 0, scriptPubKey |-> Script("create", "A", <<>>, "60806040")],
     [value |-> 0, scriptPubKey |-> Script("create", "B", <<>>, "60806041")],
     [value |-> 0, scriptPubKey |-> Script("create", "", <<>>, "60806042")],
     [value |-> 0, scriptPubKey |-> Script("call", "A", <<>>, "a9059cbb")],
     [value |-> 0, scriptPubKey |-> Script("call", "A", <<>>, "70a08231")],
     [value |-> 0, scriptPubKey |-> Script("call", "A", <<>>, "")]}

MaxVout == 3

TxCalls(maxVout) ==
    {[fn |-> "indexTransaction", tx |-> [txid |-> "t1", vout |-> v],
      done |-> FALSE, out |-> <<>>] :
        v \in UNION {[1..n -> Vouts] : n \in 0..maxVout}}

\* indexTransaction builds the row of a transaction of block 1.
IndexTransactionRow ==
    /\ helper.fn = "indexTransaction"
    /\ ~helper.done
    /\ helper' = [helper EXCEPT !.out = TxRow(helper.tx, Chain(1), 0),
                                !.done = TRUE]
    /\ UNCHANGED <<isRunning, loops, tasks, cur, store, faults, hist>>

\* The outputs of script type `type`, and the last of them.
OutputsOfType(vout, type) ==
    {i \in 1..Len(vout) : vout[i].scriptPubKey.type = type}
IsLast(i, S) == i \in S /\ \A j \in S : j <= i

ZeroAddress == "0000000000000000000000000000000000000000"
LogAddresses == {ZeroAddress,
                 "aaaaaaaaaaaaaaaaaaaaaaaaaaaaaaaaaaaaaa01",
                 "bbbbbbbbbbbbbbbbbbbbbbbbbbbbbbbbbbbbbb02"}
LogValues == {1, 2}
MaxLogs == 3

\* balances[a] = (balances[a] || BigInt(0)) + v
Credit(balances, a, v) ==
    IF a \in DOMAIN balances THEN [balances EXCEPT ![a] = @ + v]
    ELSE balances @@ (a :> v)

\* Variant of ApplyTransfer: the zero address is an account like any other.
ApplyTransferAll(balances, log) ==
    Credit(Credit(balances, log.from, -log.value), log.to, log.value)

\* The body of the loop over the logs.
ApplyTransfer(balances, log) ==
    LET debited == IF log.from # ZeroAddress
                   THEN Credit(balances, log.from, -log.value)
                   ELSE balances
    IN  IF log.to # ZeroAddress THEN Credit(debited, log.to, log.value)
        ELSE debited

RECURSIVE Balances(_)
Balances(logs) ==
    IF logs = <<>> THEN <<>>
    ELSE ApplyTransfer(Balances(SubSeq(logs, 1, Len(logs) - 1)),
                       logs[Len(logs)])

\* Object.entries(balances).filter(([_, bal]) => bal > 0)
Listed(balances) == {a \in DOMAIN balances : balances[a] > 0}

HolderCalls(maxLogs) ==
    {[fn |-> "holders", logs |-> s, done |-> FALSE,
      out |-> [balances |-> <<>>, holders |-> {}]] :
        s \in UNION {[1..n -> [from : LogAddresses, to : LogAddresses,
                               value : LogValues]] : n \in 0..maxLogs}}

\* GET /api/token/:addr/holders on the Transfer logs of the token.
Holders ==
    /\ helper.fn = "holders"
    /\ ~helper.done
    /\ helper' = [helper EXCEPT
                    !.out = [balances |-> Balances(helper.logs),
                             holders |-> Listed(Balances(helper.logs))],
                    !.done = TRUE]
    /\ UNCHANGED <<isRunning, loops, tasks, cur, store, faults, hist>>

\* The sum of the values of the logs from index i on that have address a in
\* the given role.
RECURSIVE Received(_, _, _)
Received(a, logs, i) ==
    IF i > Len(logs) THEN 0
    ELSE (IF logs[i].to = a THEN logs[i].value ELSE 0)
            + Received(a, logs, i + 1)
RECURSIVE Sent(_, _, _)
Sent(a, logs, i) ==
    IF i > Len(logs) THEN 0
    ELSE (IF logs[i].from = a THEN logs[i].value ELSE 0)
            + Sent(a, logs, i + 1)
Net(a, logs) == Received(a, logs, 1) - Sent(a, logs, 1)

RECURSIVE SumNet(_, _)
SumNet(S, logs) ==
    IF S = {} THEN 0
    ELSE LET a == CHOOSE x \in S : TRUE
         IN  Net(a, logs) + SumNet(S \ {a}, logs)

\* C26: for any sequence of Transfer logs of a token, the holders
\* computation gives each non-zero address its received minus its sent
\* values, lists exactly the addresses with a positive net balance, never
\* credits, debits or lists the zero address, and the net balances of the
\* non-zero addresses add up to what left the zero address minus what went
\* to it.
C26_HoldersAreNetBalances ==
    (helper.fn = "holders" /\ helper.done) =>
        LET logs == helper.logs
            bal == helper.out.balances
            NonZero == LogAddresses \ {ZeroAddress}
        IN  /\ ZeroAddress \notin DOMAIN bal
            /\ ZeroAddress \notin helper.out.holders
            /\ DOMAIN bal \subseteq NonZero
            /\ \A a \in NonZero :
                  IF a \in DOMAIN bal THEN bal[a] = Net(a, logs)
                  ELSE Net(a, logs) = 0
            /\ helper.out.holders = {a \in NonZero : Net(a, logs) > 0}
            /\ SumNet(DOMAIN bal, logs)
                  = Sent(ZeroAddress, logs, 1) - Received(ZeroAddress, logs, 1)

\* Holders were computed from a mint, a transfer between two holders and a
\* burn, and one address is listed while another has a balance of zero.
C26_Witness ==
    /\ helper.fn = "holders" /\ helper.done
    /\ Len(helper.logs) = 3
    /\ helper.logs[1].from = ZeroAddress /\ helper.logs[1].to # ZeroAddress
    /\ helper.logs[2].from = helper.logs[1].to
    /\ helper.logs[2].to \notin {ZeroAddress, helper.logs[2].from}
    /\ helper.logs[3].to = ZeroAddress
    /\ helper.logs[3].from = helper.logs[2].to
    /\ helper.out.holders # {}
    /\ \E a \in DOMAIN helper.out.balances : helper.out.balances[a] = 0

(* ------------------------------- the cursor ---------------------------- *)
\* C27: the stored cursor never decreases, whatever the loop iterations,
\* errors, back-offs and chain heights reported (also one below the
\* cursor), and the write that ends a batch stores a value strictly greater
\* than the one it replaces.
C27_CursorMonotonic ==
    [][/\ StoredCursor' >= StoredCursor
       /\ \A l \in LoopIds :
            (loops[l].pc = "block" /\ loops'[l].pc \in {"count", "done"}) =>
                StoredCursor' > StoredCursor]_vars

\* After an error and a back-off the cursor has been written; the node then
\* reports a chain height below it, and the loop idles.
C27_Witness ==
    /\ faults > 0
    /\ \E l \in LoopIds :
        /\ loops[l].pc = "sleep"
        /\ loops[l].delay = IdleDelay
        /\ loops[l].chainHeight < StoredCursor

(* ------------------------------ after stop ----------------------------- *)
\* stop() has been called and every sync() that was started has returned.
Returned ==
    /\ ~isRunning
    /\ \E l \in LoopIds : loops[l].pc = "done"
    /\ \A l \in LoopIds : loops[l].pc \in {"none", "done"}

\* C28: once sync() has returned after stop(), the indexer writes nothing
\* to the store and calls the node no more, until it is started again: no
\* work the loop started is still running.
C28_QuietAfterReturn ==
    [][Returned =>
          \/ isRunning'
          \/ /\ UNCHANGED store
             /\ tasks' = tasks /\ cur' = cur]_vars

(* --------------------------- a failed commit --------------------------- *)
\* C29: when the Block row or a Transaction row of a block cannot be
\* persisted, the store is left as it was before indexBlock began, and no
\* row written on behalf of that attempt becomes visible later.  A height
\* that was committed once has had one attempt that may write rows, so each
\* log of its transactions has at most one EventLog row and at most one
\* TokenTransfer row: a second one was written for an attempt that failed.
C29_FailedCommitLeavesNothing ==
    /\ \A r \in Rows(event_logs) :
          HeightOfTx(r.tx_hash) \notin hist.again => event_logs[r] = 1
    /\ \A r \in Rows(token_transfers) :
          HeightOfTx(r.tx_hash) \notin hist.again => token_transfers[r] = 1

(* --------------------------- the limit parameter ----------------------- *)
\* Characters of the limit query parameter: a sign, digits, a letter.
QueryChars == {"-", "0", "1", "9", "a"}
MaxQueryLen == 3
DefaultLimit == 25
MaxLimit == 100

Endpoints == {"/blocks", "/address/:address/txs", "/token/:address/transfers",
              "/token/:address/holders", "/address/:address/logs"}

\* The longest prefix of s made of digits.
RECURSIVE DigitPrefix(_)
DigitPrefix(s) ==
    IF s # <<>> /\ s[1] \in {"0", "1", "9"}
    THEN <<s[1]>> \o DigitPrefix(Tail(s))
    ELSE <<>>

\* parseInt(text): an optional sign, then the digits up to the first other
\* character; NaN when there is no digit.  An absent parameter is
\* undefined, which parses to NaN.
parseIntQuery(present, s) ==
    LET negative == s # <<>> /\ s[1] = "-"
        digits == DigitPrefix(IF negative THEN Tail(s) ELSE s)
    IN  IF ~present \/ digits = <<>> THEN [nan |-> TRUE, value |-> 0]
        ELSE [nan |-> FALSE,
              value |-> IF negative THEN 0 - NumberOf(digits)
                        ELSE NumberOf(digits)]

\* Math.min(parseInt(req.query.limit) || 25, 100)
limitOf(present, s) ==
    LET n == parseIntQuery(present, s)
    IN  Min(IF n.nan \/ n.value = 0 THEN DefaultLimit ELSE n.value, MaxLimit)

LimitCalls(maxLen) ==
    {[fn |-> "limit", endpoint |-> e, present |-> TRUE, limit |-> s,
      done |-> FALSE, out |-> 0] :
        e \in Endpoints,
        s \in UNION {[1..n -> QueryChars] : n \in 0..maxLen}}
    \cup {[fn |-> "limit", endpoint |-> e, present |-> FALSE, limit |-> <<>>,
           done |-> FALSE, out |-> 0] : e \in Endpoints}

\* A paginated endpoint computes the row limit it passes to the store.
Limit ==
    /\ helper.fn = "limit"
    /\ ~helper.done
    /\ helper' = [helper EXCEPT !.out = limitOf(helper.present, helper.limit),
                                !.done = TRUE]
    /\ UNCHANGED <<isRunning, loops, tasks, cur, store, faults, hist>>

\* C30: whatever the limit query parameter is (absent, zero, negative, not
\* a number, above 100), each paginated endpoint passes the store a row
\* limit between 1 and 100.
C30_LimitInRange ==
    (helper.fn = "limit" /\ helper.done) =>
        helper.out >= 1 /\ helper.out <= 100

(* --------------------- the helpers, one call at a time ----------------- *)
\* One helper call, of any of the argument values above, on an idle indexer.
InitHelpers ==
    /\ isRunning = FALSE
    /\ loops = [l \in LoopIds |-> NewLoop]
    /\ tasks = EmptyBag
    /\ cur = <<>>
    /\ blocks = EmptyBag
    /\ transactions = EmptyBag
    /\ event_logs = EmptyBag
    /\ tokens = EmptyBag
    /\ token_transfers = EmptyBag
    /\ indexer_state = EmptyBag
    /\ faults = 0
    /\ hist = [hiDone |-> -1, skipped |-> {}, metaCalls |-> 0,
               tokenWrites |-> 0, reindexed |-> FALSE, fkRejected |-> FALSE,
               lost |-> {}, received |-> {}, lastProbe |-> {},
               again |-> {}]
    /\ helper \in FormatCalls(MaxAmount, MaxDecimals)
                  \cup DecodeCalls(MaxHexLen) \cup TxCalls(MaxVout)
                  \cup HolderCalls(MaxLogs) \cup LimitCalls(MaxQueryLen)

NextHelpers ==
    \/ Format
    \/ Decode
    \/ IndexTransactionRow
    \/ Holders
    \/ Limit

SpecHelpers == InitHelpers /\ [][NextHelpers]_vars

====
